---- MODULE Spec2Model ----
(***************************************************************************)
(* Model of src/analyze_structure.py: one invocation of analyze_epitopes  *)
(* (feature extraction from a parsed structure, column-name resolution,    *)
(* the per-row join, sort, statistics, and the two writes), and, for the   *)
(* alias-naming property, a session of consecutive invocations of main().  *)
(*                                                                         *)
(* Floats are fixed-point hundredths (8000 is 80.00).  A table cell is a   *)
(* record [k, n, s]: k = "nan" (missing), "num" (numeric, value n) or      *)
(* "str" (non-numeric text s).  A path is a sequence of tokens, the token  *)
(* ".csv" standing for each occurrence of that substring.                  *)
(***************************************************************************)
EXTENDS Integers, Sequences, FiniteSets, TLC

VARIABLES pc, error, argv, fs,
          sasa_values, plddt_values, ss_values,
          truth_df, column_mapping, row_i, results, results_df,
          epitope_count, total_count, means, summary_file, argsort_memo

vars == <<pc, error, argv, fs, sasa_values, plddt_values, ss_values,
          truth_df, column_mapping, row_i, results, results_df,
          epitope_count, total_count, means, summary_file, argsort_memo>>

\* Largest number of data rows of an enumerated label table.
MaxRows == 2

-----------------------------------------------------------------------------
(* Cells, tables, paths *)

NaN == [k |-> "nan", n |-> 0, s |-> ""]

Num(x) == [k |-> "num", n |-> x, s |-> ""]

Str(t) == [k |-> "str", n |-> 0, s |-> t]

\* pd.isna(x)
IsNa(c) == c.k = "nan"

\* int(x) succeeds on a number; on non-numeric text it raises ValueError.
CanInt(c) == c.k = "num"

IntOf(c) == c.n

\* dict.get(key, default) on a map held as a function
Get(map, key, default) == IF key \in DOMAIN map THEN map[key] ELSE default

Range(f) == {f[i] : i \in DOMAIN f}

RECURSIVE SumSeq(_)
SumSeq(xs) == IF xs = <<>> THEN 0 ELSE Head(xs) + SumSeq(Tail(xs))

\* Series.mean() / np.mean(): NaN over an empty selection.
Mean(xs) ==
    IF xs = <<>> THEN [isnan |-> TRUE, v |-> 0]
    ELSE [isnan |-> FALSE, v |-> SumSeq(xs) \div Len(xs)]

RECURSIVE Select(_, _)
Select(xs, keep) ==
    IF xs = <<>> THEN <<>>
    ELSE IF keep[Head(xs)] THEN <<Head(xs)>> \o Select(Tail(xs), keep)
    ELSE Select(Tail(xs), keep)

\* str.replace('.csv', '_summary.txt'): every occurrence is replaced.
ReplaceCsv(path) ==
    [i \in 1..Len(path) |-> IF path[i] = ".csv" THEN "_summary.txt" ELSE path[i]]

-----------------------------------------------------------------------------
(* The parsed structure: models -> chains -> residues.  het is residue.id[0], *)
(* resseq is residue.id[1], sasa is what ShrakeRupley attaches.             *)

Structure ==
    << << << [het |-> " ", resseq |-> 1, bfactors |-> <<8000, 9000>>, sasa |-> 3050],
             [het |-> "W", resseq |-> 2, bfactors |-> <<1000>>, sasa |-> 500] >>,
          << [het |-> " ", resseq |-> 3, bfactors |-> <<7000>>, sasa |-> 0],
             [het |-> " ", resseq |-> 1, bfactors |-> <<6000, 7000>>, sasa |-> 1200] >> >> >>

RECURSIVE Flatten(_)
Flatten(ss) == IF ss = <<>> THEN <<>> ELSE Head(ss) \o Flatten(Tail(ss))

\* The residues in iteration order: for model, for chain, for residue.
Residues(structure) == Flatten(Flatten(structure))

\* A dict filled in iteration order over the standard residues (residue.id[0]
\* == ' '): the last assignment to a key wins.  value[r] is what is stored.
RECURSIVE FillMap(_, _, _)
FillMap(map, rs, value) ==
    IF rs = <<>> THEN map
    ELSE LET r == Head(rs)
             m == IF r.het = " "
                  THEN [k \in DOMAIN map \cup {r.resseq} |->
                           IF k = r.resseq THEN value[r] ELSE map[k]]
                  ELSE map
         IN FillMap(m, Tail(rs), value)

calculate_sasa(structure) ==
    LET rs == Residues(structure)
    IN FillMap(<<>>, rs, [r \in Range(rs) |-> r.sasa])

extract_plddt_values(structure) ==
    LET rs == Residues(structure)
    IN FillMap(<<>>, rs, [r \in Range(rs) |-> Mean(r.bfactors).v])

calculate_secondary_structure(structure) ==
    LET rs == Residues(structure)
    IN FillMap(<<>>, rs, [r \in Range(rs) |-> "C"])

-----------------------------------------------------------------------------
(* The label table and the command line *)

IndexAliases == <<"uniprot_pos", "residue_index">>

NameAliases == <<"uniprot_aa", "residue_name">>

LabelAliases == <<"label_epitope", "is_epitope">>

PassThrough == {"sasa_complex", "sasa_monomer"}

\* The cell of column c in a row whose logical fields are l.  Two aliases of
\* one field, when both are in the header, hold the same cell.
CellOf(c, l) ==
    IF c \in Range(IndexAliases) THEN l.pos
    ELSE IF c \in Range(NameAliases) THEN l.aa
    ELSE IF c \in Range(LabelAliases) THEN l.lab
    ELSE IF c = "sasa_complex" THEN Num(1500)
    ELSE Num(2500)

\* What pd.read_csv hands back for a header `columns` and logical rows ls.
Table(columns, ls) ==
    [kind |-> "csv", columns |-> columns,
     rows |-> [i \in 1..Len(ls) |-> [c \in columns |-> CellOf(c, ls[i])]]]

\* Index cells: missing, two residue numbers (1 is in the structure, 2 is only
\* a water there), non-numeric text.
IndexCells == {NaN, Num(1), Num(2), Str("x")}

NameCells == {Str("A")}

\* Label cells: missing, 0, 1, and an integer that is neither.
LabelCells == {NaN, Num(0), Num(1), Num(2)}

LogicalRows == [pos : IndexCells, aa : NameCells, lab : LabelCells]

RowSeqs(n) == UNION {[1..k -> LogicalRows] : k \in 0..n}

\* A header takes, per field, the first alias, the second, or neither.
Pick(aliases) == {{}, {aliases[1]}, {aliases[2]}}

Headers ==
    {i \cup n \cup l : i \in Pick(IndexAliases), n \in Pick(NameAliases),
                       l \in Pick(LabelAliases)}
    \cup {{IndexAliases[k], NameAliases[k], LabelAliases[k]} \cup PassThrough : k \in 1..2}

\* The header with every alias replaced by the other alias of its field.
Other(c) ==
    IF \E k \in 1..2 : c = IndexAliases[k] THEN IndexAliases[3 - (CHOOSE k \in 1..2 : c = IndexAliases[k])]
    ELSE IF \E k \in 1..2 : c = NameAliases[k] THEN NameAliases[3 - (CHOOSE k \in 1..2 : c = NameAliases[k])]
    ELSE IF \E k \in 1..2 : c = LabelAliases[k] THEN LabelAliases[3 - (CHOOSE k \in 1..2 : c = LabelAliases[k])]
    ELSE c

Renamed(columns) == {Other(c) : c \in columns}

PdbFile == <<"model", ".pdb">>

TruthA == <<"truth_a", ".csv">>

TruthB == <<"truth_b", ".csv">>

\* The output path a run on `truth` is given: with or without a ".csv" suffix.
OutputPaths(truth) == {<<truth[1], "_out", ".csv">>, <<truth[1], "_out", ".tsv">>}

-----------------------------------------------------------------------------
(* analyze_epitopes, step by step *)

NoMap == <<>>

\* The state of a fresh call: nothing computed yet.
Locals ==
    /\ pc = "start"
    /\ error = "none"
    /\ sasa_values = NoMap /\ plddt_values = NoMap /\ ss_values = NoMap
    /\ truth_df = [kind |-> "none", columns |-> {}, rows |-> <<>>]
    /\ column_mapping = NoMap
    /\ row_i = 1
    /\ results = <<>>
    /\ results_df = [index |-> <<>>, data |-> <<>>]
    /\ epitope_count = 0 /\ total_count = 0
    /\ means = <<>>
    /\ summary_file = <<>>

\* The file system holds the label table under both namings; the first run
\* reads truth_a.csv.
InitWith(headers, n) ==
    /\ Locals
    /\ argsort_memo = NoMap
    /\ \E h \in headers, ls \in RowSeqs(n) :
          fs = (TruthA :> Table(h, ls)) @@ (TruthB :> Table(Renamed(h), ls))
    /\ \E out \in OutputPaths(TruthA) :
          argv = [pdb_file |-> PdbFile, truth_csv |-> TruthA, output_file |-> out]

Init == InitWith(Headers, MaxRows)

Raise(e) ==
    /\ pc' = "failed"
    /\ error' = e

\* Lines 68-82: parse the structure and compute the three feature maps.
LoadStructure ==
    /\ pc = "start"
    /\ sasa_values' = calculate_sasa(Structure)
    /\ plddt_values' = extract_plddt_values(Structure)
    /\ ss_values' = calculate_secondary_structure(Structure)
    /\ pc' = "read_csv"
    /\ UNCHANGED <<error, argv, fs, truth_df, column_mapping, row_i, results,
                   results_df, epitope_count, total_count, means, summary_file,
                   argsort_memo>>

\* Resolve with the elif branches lost: only the first alias is accepted.
Resolve_first_only(aliases, columns) ==
    IF aliases[1] \in columns THEN {aliases[1]} ELSE {}

\* Lines 91-105: per key, the first accepted alias in the header, else the
\* second, else no entry.
Resolve(aliases, columns) ==
    IF aliases[1] \in columns THEN {aliases[1]}
    ELSE IF aliases[2] \in columns THEN {aliases[2]}
    ELSE {}

ResolveColumns(columns) ==
    LET idx == Resolve(IndexAliases, columns)
        nam == Resolve(NameAliases, columns)
        lab == Resolve(LabelAliases, columns)
        keys == (IF idx = {} THEN {} ELSE {"residue_index"})
                \cup (IF nam = {} THEN {} ELSE {"residue_name"})
                \cup (IF lab = {} THEN {} ELSE {"is_epitope"})
    IN [k \in keys |-> IF k = "residue_index" THEN CHOOSE c \in idx : TRUE
                       ELSE IF k = "residue_name" THEN CHOOSE c \in nam : TRUE
                       ELSE CHOOSE c \in lab : TRUE]

\* Lines 86-110: read the label table, resolve its columns, start the loop.
ReadTruth ==
    /\ pc = "read_csv"
    /\ truth_df' = fs[argv.truth_csv]
    /\ column_mapping' = ResolveColumns(fs[argv.truth_csv].columns)
    /\ results' = <<>>
    /\ row_i' = 1
    /\ pc' = "join"
    /\ UNCHANGED <<error, argv, fs, sasa_values, plddt_values, ss_values,
                   results_df, epitope_count, total_count, means, summary_file,
                   argsort_memo>>

\* JoinOutcome reading the index with a default (column_mapping.get): a row of
\* a table with no index column is skipped like a row with a missing index.
JoinOutcome_skip_unmapped(row, mapping) ==
    IF "residue_index" \notin DOMAIN mapping THEN "skip"
    ELSE LET res_idx == row[mapping["residue_index"]]
         IN IF IsNa(res_idx) THEN "skip"
            ELSE IF ~CanInt(res_idx) THEN "ValueError"
            ELSE IF "residue_name" \notin DOMAIN mapping THEN "KeyError"
            ELSE IF "is_epitope" \notin DOMAIN mapping THEN "KeyError"
            ELSE LET lab == row[mapping["is_epitope"]]
                 IN IF ~IsNa(lab) /\ ~CanInt(lab) THEN "ValueError" ELSE "append"

\* Lines 114-129: what one row does to the loop.  The dict literal is
\* evaluated in order: column_mapping[...] on a key that was never mapped
\* raises KeyError, int() on non-numeric text raises ValueError.
JoinOutcome(row, mapping) ==
    IF "residue_index" \notin DOMAIN mapping THEN "KeyError"
    ELSE LET res_idx == row[mapping["residue_index"]]
         IN IF IsNa(res_idx) THEN "skip"
            ELSE IF ~CanInt(res_idx) THEN "ValueError"
            ELSE IF "residue_name" \notin DOMAIN mapping THEN "KeyError"
            ELSE IF "is_epitope" \notin DOMAIN mapping THEN "KeyError"
            ELSE LET lab == row[mapping["is_epitope"]]
                 IN IF ~IsNa(lab) /\ ~CanInt(lab) THEN "ValueError" ELSE "append"

\* Lines 120-129: the merged record of a row that passes JoinOutcome.
ResultRow(row, mapping, sasa, plddt, ss) ==
    LET res_idx == IntOf(row[mapping["residue_index"]])
        lab == row[mapping["is_epitope"]]
    IN [residue_index |-> res_idx,
        residue_name |-> IF mapping["residue_name"] \in DOMAIN row
                         THEN row[mapping["residue_name"]] ELSE Str("UNK"),
        is_epitope |-> IF mapping["is_epitope"] \in DOMAIN row /\ ~IsNa(lab)
                       THEN IntOf(lab) ELSE 0,
        sasa |-> Get(sasa, res_idx, 0),
        plddt |-> Get(plddt, res_idx, 0),
        secondary_structure |-> Get(ss, res_idx, "Unknown"),
        original_sasa_complex |-> Get(row, "sasa_complex", Num(0)),
        original_sasa_monomer |-> Get(row, "sasa_monomer", Num(0))]

\* Lines 112-130: one iteration of the loop over truth_df.iterrows().
JoinRow ==
    /\ pc = "join"
    /\ row_i <= Len(truth_df.rows)
    /\ LET row == truth_df.rows[row_i]
           outcome == JoinOutcome(row, column_mapping)
       IN IF outcome = "skip"
          THEN /\ row_i' = row_i + 1
               /\ UNCHANGED <<pc, error, results>>
          ELSE IF outcome = "append"
          THEN /\ results' = Append(results, ResultRow(row, column_mapping, sasa_values,
                                                       plddt_values, ss_values))
               /\ row_i' = row_i + 1
               /\ UNCHANGED <<pc, error>>
          ELSE /\ Raise(outcome)
               /\ UNCHANGED <<row_i, results>>
    /\ UNCHANGED <<argv, fs, sasa_values, plddt_values, ss_values, truth_df,
                   column_mapping, results_df, epitope_count, total_count, means,
                   summary_file, argsort_memo>>

OutputColumns ==
    <<"residue_index", "residue_name", "is_epitope", "sasa", "plddt",
      "secondary_structure", "original_sasa_complex", "original_sasa_monomer">>

\* Indexers with the sorted frame thrown away (sort_values called without
\* keeping its result): the rows stay in input order.
Indexers_unsorted(keys) == {[i \in 1..Len(keys) |-> i]}

\* The indexers argsort(kind='quicksort') may return for `keys`: every
\* permutation that puts the keys in ascending order.  quicksort is not a
\* stable sort, so the order of equal keys is the build's choice.
Indexers(keys) ==
    {p \in Permutations(1..Len(keys)) :
        \A i, j \in 1..Len(keys) : i < j => keys[p[i]] <= keys[p[j]]}

\* Lines 133-134: pd.DataFrame(results).sort_values('residue_index').  A frame
\* built from no records has no columns, and sorting it by name raises
\* KeyError.  argsort is a function of its input: a key sequence sorted before
\* in this session gets the same indexer again.
SortResults ==
    /\ pc = "join"
    /\ row_i > Len(truth_df.rows)
    /\ IF results = <<>>
       THEN /\ Raise("KeyError")
            /\ UNCHANGED <<results_df, argsort_memo>>
       ELSE LET keys == [i \in 1..Len(results) |-> results[i].residue_index]
            IN \E p \in Indexers(keys) :
                  /\ keys \in DOMAIN argsort_memo => p = argsort_memo[keys]
                  /\ argsort_memo' = (keys :> p) @@ argsort_memo
                  /\ results_df' = [index |-> p,
                                    data |-> [i \in 1..Len(results) |-> results[p[i]]]]
                  /\ pc' = "stats"
                  /\ UNCHANGED error
    /\ UNCHANGED <<argv, fs, sasa_values, plddt_values, ss_values, truth_df,
                   column_mapping, row_i, results, epitope_count, total_count, means,
                   summary_file>>

\* results_df[results_df['is_epitope'] == flag]
WithFlag(data, flag) == Select(data, [r \in Range(data) |-> r.is_epitope = flag])

ColumnOf(data, name) == [i \in 1..Len(data) |-> data[i][name]]

\* Lines 146-153 and 170-173: the four means, in the order they are written.
GroupMeans(data) ==
    LET epitope_stats == WithFlag(data, 1)
        non_epitope_stats == WithFlag(data, 0)
    IN <<Mean(ColumnOf(epitope_stats, "plddt")),
         Mean(ColumnOf(non_epitope_stats, "plddt")),
         Mean(ColumnOf(epitope_stats, "sasa")),
         Mean(ColumnOf(non_epitope_stats, "sasa"))>>

\* Lines 137-153: the counts, and the means when there is an epitope row.
ComputeStats ==
    /\ pc = "stats"
    /\ epitope_count' = Len(WithFlag(results_df.data, 1))
    /\ total_count' = Len(results_df.data)
    /\ means' = IF Len(WithFlag(results_df.data, 1)) > 0
                THEN GroupMeans(results_df.data) ELSE <<>>
    /\ pc' = "to_csv"
    /\ UNCHANGED <<error, argv, fs, sasa_values, plddt_values, ss_values,
                   truth_df, column_mapping, row_i, results, results_df, summary_file,
                   argsort_memo>>

\* Line 156: results_df.to_csv(output_file, index=False).  The write may fail
\* in the file system (OSError), and then nothing is written.
WriteTable ==
    /\ pc = "to_csv"
    /\ \E ok \in BOOLEAN :
          IF ok
          THEN /\ fs' = (argv.output_file :>
                           [kind |-> "table", columns |-> OutputColumns,
                            rows |-> results_df.data]) @@ fs
               /\ pc' = "summary"
               /\ UNCHANGED error
          ELSE /\ Raise("OSError")
               /\ UNCHANGED fs
    /\ UNCHANGED <<argv, sasa_values, plddt_values, ss_values, truth_df,
                   column_mapping, row_i, results, results_df, epitope_count,
                   total_count, means, summary_file, argsort_memo>>

\* Lines 162-173: what is written to the summary file.
SummaryText ==
    [kind |-> "summary", pdb |-> argv.pdb_file, truth |-> argv.truth_csv,
     total |-> total_count, epitope |-> epitope_count,
     non_epitope |-> total_count - epitope_count,
     means |-> IF epitope_count > 0 THEN GroupMeans(results_df.data) ELSE <<>>]

\* Lines 160-175: derive the summary path and write the summary.  open(..., 'w')
\* may fail (OSError), leaving the file system as it is; when it succeeds it
\* replaces whatever the path held.
WriteSummary ==
    /\ pc = "summary"
    /\ summary_file' = ReplaceCsv(argv.output_file)
    /\ \E ok \in BOOLEAN :
          IF ok
          THEN /\ fs' = (ReplaceCsv(argv.output_file) :> SummaryText) @@ fs
               /\ pc' = "done"
               /\ UNCHANGED error
          ELSE /\ Raise("OSError")
               /\ UNCHANGED fs
    /\ UNCHANGED <<argv, sasa_values, plddt_values, ss_values, truth_df,
                   column_mapping, row_i, results, results_df, epitope_count,
                   total_count, means, argsort_memo>>

Next ==
    \/ LoadStructure
    \/ ReadTruth
    \/ JoinRow
    \/ SortResults
    \/ ComputeStats
    \/ WriteTable
    \/ WriteSummary

Spec == Init /\ [][Next]_vars

-----------------------------------------------------------------------------
(* A session of two invocations: main() on truth_a.csv, then main() again on *)
(* truth_b.csv (the same cells under the other column names), the output     *)
(* named after the input with the same suffix.  The file system and the      *)
(* build's argsort carry over; every local starts afresh.                    *)

\* Headers that name all three fields with one alias set, with and without
\* the pass-through columns.
AliasHeaders ==
    {{IndexAliases[k], NameAliases[k], LabelAliases[k]} \cup extra :
        k \in 1..2, extra \in {{}, PassThrough}}

InitAlias == InitWith(AliasHeaders, MaxRows)

\* Lines 177-185: main() called again, once the first call has returned or raised.
Reinvoke ==
    /\ pc \in {"done", "failed"}
    /\ argv.truth_csv = TruthA
    /\ argv' = [pdb_file |-> PdbFile, truth_csv |-> TruthB,
                output_file |-> <<TruthB[1], "_out", argv.output_file[3]>>]
    /\ pc' = "start"
    /\ error' = "none"
    /\ sasa_values' = NoMap /\ plddt_values' = NoMap /\ ss_values' = NoMap
    /\ truth_df' = [kind |-> "none", columns |-> {}, rows |-> <<>>]
    /\ column_mapping' = NoMap
    /\ row_i' = 1
    /\ results' = <<>>
    /\ results_df' = [index |-> <<>>, data |-> <<>>]
    /\ epitope_count' = 0 /\ total_count' = 0
    /\ means' = <<>>
    /\ summary_file' = <<>>
    /\ UNCHANGED <<fs, argsort_memo>>

NextAlias ==
    \/ Next
    \/ Reinvoke

SpecAlias == InitAlias /\ [][NextAlias]_vars


-----------------------------------------------------------------------------
(* Vocabulary of the properties *)

Terminated == pc \in {"done", "failed"}

\* The label table the current call was pointed at.
Input == fs[argv.truth_csv]

IndexResolvable == Range(IndexAliases) \cap Input.columns # {}

NameResolvable == Range(NameAliases) \cap Input.columns # {}

LabelResolvable == Range(LabelAliases) \cap Input.columns # {}

\* The index cell of input row i, under whichever accepted name it has.
IndexCell(i) ==
    Input.rows[i][CHOOSE c \in Range(IndexAliases) \cap Input.columns : TRUE]

\* Missing, or not coercible to an integer.
BadIndex(i) == IsNa(IndexCell(i)) \/ ~CanInt(IndexCell(i))

HasTable(path) == path \in DOMAIN fs /\ fs[path].kind = "table"

HasSummary(path) == path \in DOMAIN fs /\ fs[path].kind = "summary"

SummaryPath == ReplaceCsv(argv.output_file)

\* How many times record r occurs in xs.
Count(xs, r) == Cardinality({i \in 1..Len(xs) : xs[i] = r})

Ascending(rows) ==
    \A i, j \in 1..Len(rows) : i < j => rows[i].residue_index <= rows[j].residue_index

\* The one stable ascending order of xs: insertion after every equal key.
RECURSIVE InsertStable(_, _)
InsertStable(sorted, r) ==
    IF sorted = <<>> THEN <<r>>
    ELSE IF r.residue_index < Head(sorted).residue_index THEN <<r>> \o sorted
    ELSE <<Head(sorted)>> \o InsertStable(Tail(sorted), r)

RECURSIVE StableSort(_)
StableSort(xs) ==
    IF xs = <<>> THEN <<>>
    ELSE InsertStable(StableSort(SubSeq(xs, 1, Len(xs) - 1)), xs[Len(xs)])

-----------------------------------------------------------------------------
(* The claims *)

\* C1: with a resolvable index column, a row whose index is missing or not
\* coercible to an integer is dropped and the loop goes on: the run never
\* aborts at such a row, and while the loop runs the records collected so far
\* hold no residue of a dropped row (their number is the number of rows read
\* so far whose index is present and coercible).
C1_BadIndexRowIsDropped ==
    IndexResolvable /\ truth_df.kind = "csv" =>
        /\ pc = "failed" /\ row_i <= Len(truth_df.rows) => ~BadIndex(row_i)
        /\ pc = "join" =>
              Len(results) = Cardinality({i \in 1..(row_i - 1) : ~BadIndex(i)})

\* C2: with a resolvable index column and no accepted name column and/or no
\* accepted label column, no row raises KeyError, and every record collected
\* has residue_name "UNK" (name unmapped) and is_epitope 0 (label unmapped).
C2_UnmappedFieldsDefault ==
    truth_df.kind = "csv" /\ IndexResolvable /\ (~NameResolvable \/ ~LabelResolvable) =>
        /\ ~(pc = "failed" /\ error = "KeyError" /\ row_i <= Len(truth_df.rows))
        /\ \A i \in 1..Len(results) :
              /\ ~NameResolvable => results[i].residue_name = Str("UNK")
              /\ ~LabelResolvable => results[i].is_epitope = 0

\* C3: when the label table has neither accepted index column name, the run
\* never completes, no row is ever processed (the loop position stays at the
\* first row and no record is collected), and neither the output table nor the
\* summary is written; tables with zero rows included.
C3_NoIndexColumnIsFatal ==
    ~IndexResolvable =>
        /\ pc \in {"start", "read_csv", "join", "failed"}
        /\ row_i = 1
        /\ results = <<>>
        /\ argv.output_file \notin DOMAIN fs
        /\ SummaryPath \notin DOMAIN fs

\* C3 witness: a run on a table with rows, a name column and a label column,
\* but no column under either accepted index name, has ended in KeyError.
C3_Witness ==
    /\ ~IndexResolvable
    /\ pc = "failed" /\ error = "KeyError"
    /\ Len(truth_df.rows) = MaxRows
    /\ NameResolvable /\ LabelResolvable

\* C4: in every terminated run either both the output table and the summary
\* file have been written, or neither has.
C4_AllOrNothing ==
    Terminated => (HasTable(argv.output_file) <=> HasSummary(SummaryPath))

C6_Input ==
    /\ truth_df.kind = "csv"
    /\ IndexResolvable /\ NameResolvable /\ LabelResolvable
    /\ \A i \in 1..Len(truth_df.rows) : IsNa(IndexCell(i)) \/ CanInt(IndexCell(i))

\* C6: with a resolvable index column the run completes (it fails only in the
\* file system) and the table holds one record per row whose index is present
\* and coercible, never more than the input has rows; this includes inputs
\* where no row survives.
C6_OneRecordPerCoercibleRow ==
    C6_Input =>
        /\ pc = "failed" => error = "OSError"
        /\ HasTable(argv.output_file) =>
              /\ Len(fs[argv.output_file].rows)
                    = Cardinality({i \in 1..Len(truth_df.rows) : ~BadIndex(i)})
              /\ Len(fs[argv.output_file].rows) <= Len(truth_df.rows)

\* C7: in every completed run the reported epitope and non-epitope counts add
\* up to the number of output rows, and the reported non-epitope count is the
\* size of the is_epitope = 0 subset the non-epitope means are taken over.
C7_CountsPartition ==
    pc = "done" /\ HasSummary(SummaryPath) =>
        LET rep == fs[SummaryPath]
        IN /\ rep.epitope + rep.non_epitope = Len(results_df.data)
           /\ rep.epitope = Len(WithFlag(results_df.data, 1))
           /\ rep.non_epitope = Len(WithFlag(results_df.data, 0))

\* C9: every completed run leaves two distinct artifacts: the summary path
\* derived from the output path differs from it, and both files are there.
C9_TwoDistinctArtifacts ==
    pc = "done" =>
        /\ summary_file # argv.output_file
        /\ HasTable(argv.output_file)
        /\ HasSummary(summary_file)

\* C10: no mean in the summary is undefined: the means are left out when there
\* is no epitope record, and each mean written is over a non-empty subset.
C10_NoUndefinedMean ==
    pc = "done" /\ HasSummary(SummaryPath) =>
        LET rep == fs[SummaryPath]
        IN /\ rep.epitope = 0 => rep.means = <<>>
           /\ \A k \in 1..Len(rep.means) : ~rep.means[k].isnan

\* The output path of the session's run on `truth`.
OutOf(truth) == <<truth[1], "_out", argv.output_file[3]>>

\* C8: once the run on the table named uniprot_pos/uniprot_aa/label_epitope
\* (or residue_index/residue_name/is_epitope) has left its output table, the
\* run on the same cells under the other names fails only if the file system
\* refuses a write, and the table it writes is identical (same columns in the
\* same order, same rows in the same order).
C8_AliasNamingSameTable ==
    argv.truth_csv = TruthB /\ HasTable(OutOf(TruthA)) =>
        /\ pc = "failed" => error = "OSError"
        /\ HasTable(OutOf(TruthB)) => fs[OutOf(TruthB)] = fs[OutOf(TruthA)]

\* C8 witness: both runs completed, the first on the uniprot_* names and the
\* second on the residue_*/is_epitope names, over rows that share an index.
C8_Witness ==
    /\ argv.truth_csv = TruthB /\ pc = "done"
    /\ fs[TruthA].columns = {"uniprot_pos", "uniprot_aa", "label_epitope"}
    /\ fs[TruthB].columns = {"residue_index", "residue_name", "is_epitope"}
    /\ HasTable(OutOf(TruthA)) /\ HasTable(OutOf(TruthB))
    /\ Len(fs[OutOf(TruthB)].rows) = MaxRows
    /\ fs[OutOf(TruthB)].rows[1].residue_index = fs[OutOf(TruthB)].rows[MaxRows].residue_index
    /\ fs[OutOf(TruthB)].rows[1] # fs[OutOf(TruthB)].rows[MaxRows]

====
